---------------------------- MODULE Spec2Model ----------------------------
(***************************************************************************)
(* House price prediction with simple linear regression.                   *)
(*                                                                         *)
(* The regression core (calculateRegression, predictPrice) computes in     *)
(* JavaScript numbers, that is IEEE-754 binary64 with round-to-nearest,    *)
(* ties-to-even.  The model computes in the same arithmetic: a number is   *)
(* a sign, an odd natural mantissa of at most 53 bits and a binary         *)
(* exponent, and every operation is the exact operation followed by one    *)
(* rounding to 53 bits.  Mantissas and intermediate exact results exceed   *)
(* the range of TLC's integers, so naturals are kept as sequences of       *)
(* 15-bit limbs, least significant first.                                  *)
(*                                                                         *)
(* In the arithmetic operations exponent overflow and subnormal results    *)
(* are not modelled: the inputs the specifications enumerate keep every    *)
(* intermediate between 2^-200 and 2^200 in magnitude.  The conversion of  *)
(* a text to a number (Number) does round to subnormal numbers and to the  *)
(* infinities.                                                             *)
(*                                                                         *)
(* Three specifications: SpecCore follows one call of calculateRegression  *)
(* statement by statement and then one call of predictPrice; Spec is the   *)
(* page (page.tsx): its state hooks, its effects and its event handlers,   *)
(* opened on a short stored list; SpecAtLimit is the page opened on a      *)
(* stored list of 49 or 50 points, with the operations on the point list.  *)
(***************************************************************************)
EXTENDS Integers, Sequences, FiniteSets, TLC

\* The element of a one-element set.  { e : c \in {v} } stands for
\* `const c = v` followed by e: the value of v is computed once.
The(S) == CHOOSE r \in S : TRUE

----------------------------------------------------------------------------
(* Naturals of arbitrary size: sequences of limbs in 0..Base-1, least      *)
(* significant first, with no leading (high) zero limb; zero is <<>>.      *)

Base == 2 ^ 15

\* the number of limbs walked limb by limb
Block == 8

Limb(a, i) == IF i <= Len(a) THEN a[i] ELSE 0

(* The operators that walk over the limbs go limb by limb over at most     *)
(* Block limbs; a longer range is split in halves, the first half being    *)
(* computed before the second is started.                                  *)

RECURSIVE BTopFrom(_, _, _)
\* the highest i in lo..hi with a[i] # 0, or 0 if there is none
BTopFrom(a, lo, hi) ==
    IF lo > hi THEN 0
    ELSE IF a[hi] # 0 THEN hi
    ELSE IF lo = hi THEN 0
    ELSE The({ IF t # 0 THEN t ELSE BTopFrom(a, lo, (lo + hi) \div 2) :
                   t \in {BTopFrom(a, (lo + hi) \div 2 + 1, hi)} })

\* a without its high zero limbs
BTrim(a) ==
    IF a = <<>> \/ a[Len(a)] # 0 THEN a
    ELSE SubSeq(a, 1, BTopFrom(a, 1, Len(a)))

BFromInt(n) ==
    IF n = 0 THEN <<>>
    ELSE IF n < Base THEN <<n>>
    ELSE IF n < Base * Base THEN <<n % Base, n \div Base>>
    ELSE <<n % Base, (n \div Base) % Base, n \div (Base * Base)>>

BIsZero(a) == a = <<>>

BIsOdd(a) == a # <<>> /\ a[1] % 2 = 1

RECURSIVE BCmpFrom(_, _, _, _)
\* -1, 0, 1 as the limbs lo..hi of a are below, equal to, above those of b
BCmpFrom(a, b, lo, hi) ==
    IF lo > hi THEN 0
    ELSE IF a[hi] < b[hi] THEN -1
    ELSE IF a[hi] > b[hi] THEN 1
    ELSE The({ IF c # 0 THEN c ELSE BCmpFrom(a, b, lo, (lo + hi - 1) \div 2) :
                   c \in {BCmpFrom(a, b, (lo + hi - 1) \div 2 + 1, hi - 1)} })

\* -1, 0, 1 as a < b, a = b, a > b
BCmp(a, b) ==
    IF Len(a) < Len(b) THEN -1
    ELSE IF Len(a) > Len(b) THEN 1
    ELSE IF a = <<>> THEN 0
    ELSE BCmpFrom(a, b, 1, Len(a))

RECURSIVE BAddFrom(_, _, _, _, _)
\* the limbs lo..hi of a + b + c, followed by the carry out of limb hi
BAddFrom(a, b, lo, hi, c) ==
    IF lo > hi THEN <<c>>
    ELSE IF hi - lo >= Block
    THEN The({ SubSeq(L, 1, Len(L) - 1) \o BAddFrom(a, b, (lo + hi) \div 2 + 1, hi, L[Len(L)]) :
                   L \in {BAddFrom(a, b, lo, (lo + hi) \div 2, c)} })
    ELSE LET s == Limb(a, lo) + Limb(b, lo) + c
         IN  <<s % Base>> \o BAddFrom(a, b, lo + 1, hi, s \div Base)

\* s without its last limb if that is zero
DropCarry(s) == IF s[Len(s)] = 0 THEN SubSeq(s, 1, Len(s) - 1) ELSE s

BAdd(a, b) ==
    IF a = <<>> THEN b
    ELSE IF b = <<>> THEN a
    ELSE DropCarry(BAddFrom(a, b, 1, IF Len(a) > Len(b) THEN Len(a) ELSE Len(b), 0))

RECURSIVE BSubFrom(_, _, _, _, _)
\* the limbs lo..hi of a - b - c, followed by the borrow out of limb hi
BSubFrom(a, b, lo, hi, c) ==
    IF lo > hi THEN <<c>>
    ELSE IF hi - lo >= Block
    THEN The({ SubSeq(L, 1, Len(L) - 1) \o BSubFrom(a, b, (lo + hi) \div 2 + 1, hi, L[Len(L)]) :
                   L \in {BSubFrom(a, b, lo, (lo + hi) \div 2, c)} })
    ELSE LET s == a[lo] - Limb(b, lo) - c
         IN  IF s < 0 THEN <<s + Base>> \o BSubFrom(a, b, lo + 1, hi, 1)
             ELSE <<s>> \o BSubFrom(a, b, lo + 1, hi, 0)

\* a - b for a >= b
BSub(a, b) ==
    IF b = <<>> THEN a ELSE BTrim(BSubFrom(a, b, 1, Len(a), 0))

RECURSIVE BMulSmallFrom(_, _, _, _, _)
\* the limbs lo..hi of a * k + c, followed by the carry out of limb hi
BMulSmallFrom(a, k, lo, hi, c) ==
    IF lo > hi THEN <<c>>
    ELSE IF hi - lo >= Block
    THEN The({ SubSeq(L, 1, Len(L) - 1) \o BMulSmallFrom(a, k, (lo + hi) \div 2 + 1, hi, L[Len(L)]) :
                   L \in {BMulSmallFrom(a, k, lo, (lo + hi) \div 2, c)} })
    ELSE LET s == a[lo] * k + c
         IN  <<s % Base>> \o BMulSmallFrom(a, k, lo + 1, hi, s \div Base)

\* a * k for 0 <= k < Base
BMulSmall(a, k) ==
    IF k = 0 \/ a = <<>> THEN <<>>
    ELSE DropCarry(BMulSmallFrom(a, k, 1, Len(a), 0))

Zeros(q) == [i \in 1..q |-> 0]

RECURSIVE BMulFrom(_, _, _, _)
\* a times the number whose limbs are the limbs lo..hi of b
BMulFrom(a, b, lo, hi) ==
    IF lo = hi THEN BMulSmall(a, b[lo])
    ELSE The({ The({ IF H = <<>> THEN L
                     ELSE BAdd(L, Zeros((lo + hi) \div 2 - lo + 1) \o H) :
                          H \in {BMulFrom(a, b, (lo + hi) \div 2 + 1, hi)} }) :
                   L \in {BMulFrom(a, b, lo, (lo + hi) \div 2)} })

BMul(a, b) == IF a = <<>> \/ b = <<>> THEN <<>> ELSE BMulFrom(a, b, 1, Len(b))

\* a * 2^k
BShl(a, k) ==
    IF a = <<>> THEN a
    ELSE Zeros(k \div 15) \o BMulSmall(a, 2 ^ (k % 15))

\* floor(a / 2^k)
BShr(a, k) ==
    LET q == k \div 15
        r == k % 15
        n == Len(a) - q
    IN  IF n <= 0 THEN <<>>
        ELSE BTrim([i \in 1..n |->
                 (a[i + q] \div 2 ^ r) + (Limb(a, i + q + 1) % 2 ^ r) * 2 ^ (15 - r)])

\* a mod 2^k
BLow(a, k) ==
    LET q == k \div 15
        r == k % 15
    IN  IF Len(a) <= q THEN a
        ELSE BTrim([i \in 1..(q + 1) |-> IF i <= q THEN a[i] ELSE a[i] % 2 ^ r])

RECURSIVE IntBitLen(_)
IntBitLen(n) == IF n = 0 THEN 0 ELSE 1 + IntBitLen(n \div 2)

BBitLen(a) == IF a = <<>> THEN 0 ELSE 15 * (Len(a) - 1) + IntBitLen(a[Len(a)])

RECURSIVE IntTrailingZeros(_)
IntTrailingZeros(n) == IF n % 2 = 1 THEN 0 ELSE 1 + IntTrailingZeros(n \div 2)

RECURSIVE BTrailingZerosFrom(_, _)
BTrailingZerosFrom(a, i) ==
    IF a[i] = 0 THEN 15 + BTrailingZerosFrom(a, i + 1)
    ELSE IntTrailingZeros(a[i])

\* the number of low zero bits of a # 0
BTrailingZeros(a) == BTrailingZerosFrom(a, 1)

RECURSIVE BDivSmallFrom(_, _, _, _, _, _)
\* short division of the limbs hi down to lo of a by k, after the quotient
\* limbs q and the remainder r: <<quotient limbs, remainder>>
BDivSmallFrom(a, k, lo, hi, q, r) ==
    IF lo > hi THEN <<q, r>>
    ELSE IF hi - lo >= Block
    THEN The({ BDivSmallFrom(a, k, lo, (lo + hi) \div 2, H[1], H[2]) :
                   H \in {BDivSmallFrom(a, k, (lo + hi) \div 2 + 1, hi, q, r)} })
    ELSE LET cur == r * Base + a[hi]
         IN  BDivSmallFrom(a, k, lo, hi - 1, <<cur \div k>> \o q, cur % k)

\* <<floor(a / k), a mod k>> for 0 < k < Base; the remainder is an integer
BDivSmall(a, k) ==
    The({ <<BTrim(qr[1]), qr[2]>> : qr \in {BDivSmallFrom(a, k, 1, Len(a), <<>>, 0)} })

RECURSIVE BFixDigit(_, _, _)
BFixDigit(b, r, qhat) ==
    IF BCmp(BMulSmall(b, qhat), r) > 0 THEN BFixDigit(b, r, qhat - 1) ELSE qhat

\* floor(r / b) for r < b * Base and b with its top limb >= Base / 2
BQuotDigit(b, r) ==
    LET n == Len(b)
    IN  IF Len(r) < n THEN 0
        ELSE LET top == Limb(r, n + 1) * Base + r[n]
                 est == top \div b[n]
             IN  BFixDigit(b, r, IF est > Base - 1 THEN Base - 1 ELSE est)

RECURSIVE BDivFrom(_, _, _, _, _, _)
\* long division of the limbs hi down to lo of a by b, after the quotient
\* limbs q and the remainder r: <<quotient limbs, remainder>>
BDivFrom(a, b, lo, hi, q, r) ==
    IF lo > hi THEN <<q, r>>
    ELSE IF hi - lo >= Block
    THEN The({ BDivFrom(a, b, lo, (lo + hi) \div 2, H[1], H[2]) :
                   H \in {BDivFrom(a, b, (lo + hi) \div 2 + 1, hi, q, r)} })
    ELSE The({ The({ The({ BDivFrom(a, b, lo, hi - 1, <<qd>> \o q, rest) :
                               rest \in {BSub(cur, BMulSmall(b, qd))} }) :
                          qd \in {BQuotDigit(b, cur)} }) :
                   cur \in {BTrim(<<a[hi]>> \o r)} })

\* <<floor(a / b), a mod b>> for b # 0, both as limb sequences
BDivMod(a, b) ==
    IF Len(b) = 1
    THEN LET qr == BDivSmall(a, b[1]) IN <<qr[1], BFromInt(qr[2])>>
    ELSE LET s  == 15 - IntBitLen(b[Len(b)])
             qr == BDivFrom(BShl(a, s), BShl(b, s), 1, Len(BShl(a, s)), <<>>, <<>>)
         IN  <<BTrim(qr[1]), BShr(qr[2], s)>>

RECURSIVE BSqrtFrom(_, _)
BSqrtFrom(a, x) ==
    LET y == BShr(BAdd(x, BDivMod(a, x)[1]), 1)
    IN  IF BCmp(y, x) < 0 THEN BSqrtFrom(a, y) ELSE x

\* floor(sqrt(a)), by Newton's iteration from a power of two above the root
BSqrt(a) == IF a = <<>> THEN a ELSE BSqrtFrom(a, BShl(<<1>>, (BBitLen(a) + 1) \div 2))

RECURSIVE BPow10(_)
\* 10^k, by squaring
BPow10(k) ==
    IF k = 0 THEN <<1>>
    ELSE IF k % 2 = 1 THEN BMulSmall(BPow10(k - 1), 10)
    ELSE The({ BMul(h, h) : h \in {BPow10(k \div 2)} })
----------------------------------------------------------------------------
(* JavaScript numbers (IEEE-754 binary64).  A finite number is             *)
(*   [neg |-> sign, m |-> odd mantissa (limbs) or <<>> for zero, e |-> k]  *)
(* and stands for (-1)^neg * m * 2^e; the mantissa has at most 53 bits.    *)
(* The representation is canonical, so two finite numbers are the same     *)
(* JavaScript value (up to the sign of zero) iff the records are equal.    *)

FZero(neg) == [neg |-> neg, m |-> <<>>, e |-> 0]

FIsZero(x) == x.m = <<>>

\* the canonical record of (-1)^neg * M * 2^e, M of at most 53 bits
FCanon(neg, M, e) ==
    IF M = <<>> THEN FZero(neg)
    ELSE LET t == BTrailingZeros(M)
         IN  [neg |-> neg, m |-> BShr(M, t), e |-> e + t]

\* Round to nearest, ties to even: the number nearest (M + d) * 2^e, where
\* 0 <= d < 1 and sticky says that d > 0 (then M has at least 55 bits).
FRound(neg, M, e, sticky) ==
    LET L == BBitLen(M)
    IN  IF L <= 53 THEN FCanon(neg, M, e)
        ELSE LET sh   == L - 53
                 kept == BShr(M, sh)
                 c    == BCmp(BLow(M, sh), BShl(<<1>>, sh - 1))
                 up   == c > 0 \/ (c = 0 /\ (sticky \/ BIsOdd(kept)))
             IN  FCanon(neg, IF up THEN BAdd(kept, <<1>>) ELSE kept, e + sh)

\* a JavaScript integer value such as data.length or a literal
FromInt(n) == IF n < 0 THEN FCanon(TRUE, BFromInt(-n), 0) ELSE FCanon(FALSE, BFromInt(n), 0)

FNeg(x) == [x EXCEPT !.neg = ~x.neg]

\* the position just above the leading bit: |x| < 2^FTop(x)
FTop(x) == x.e + BBitLen(x.m)

\* x + y
FAdd(x, y) ==
    IF FIsZero(x) /\ FIsZero(y) THEN FZero(x.neg /\ y.neg)
    ELSE IF FIsZero(x) THEN y
    ELSE IF FIsZero(y) THEN x
    ELSE IF FTop(x) - FTop(y) > 64 THEN x
    ELSE IF FTop(y) - FTop(x) > 64 THEN y
    ELSE LET e  == IF x.e < y.e THEN x.e ELSE y.e
             Mx == BShl(x.m, x.e - e)
             My == BShl(y.m, y.e - e)
             c  == BCmp(Mx, My)
         IN  IF x.neg = y.neg THEN FRound(x.neg, BAdd(Mx, My), e, FALSE)
             ELSE IF c = 0 THEN FZero(FALSE)
             ELSE IF c > 0 THEN FRound(x.neg, BSub(Mx, My), e, FALSE)
             ELSE FRound(y.neg, BSub(My, Mx), e, FALSE)

\* x - y
FSub(x, y) == FAdd(x, FNeg(y))

\* x * y
FMul(x, y) ==
    IF FIsZero(x) \/ FIsZero(y) THEN FZero(x.neg # y.neg)
    ELSE FRound(x.neg # y.neg, BMul(x.m, y.m), x.e + y.e, FALSE)

\* x / y for y # 0
FDiv(x, y) ==
    IF FIsZero(x) THEN FZero(x.neg # y.neg)
    ELSE LET d  == 55 + BBitLen(y.m) - BBitLen(x.m)
             k  == IF d < 0 THEN 0 ELSE d
             qr == BDivMod(BShl(x.m, k), y.m)
         IN  FRound(x.neg # y.neg, qr[1], x.e - y.e - k, qr[2] # <<>>)

\* Math.sqrt(x) for x >= 0
FSqrt(x) ==
    IF FIsZero(x) THEN x
    ELSE LET d  == 110 - BBitLen(x.m)
             k0 == IF d < 0 THEN 0 ELSE d
             k  == IF (x.e - k0) % 2 = 0 THEN k0 ELSE k0 + 1
             M  == BShl(x.m, k)
             S  == BSqrt(M)
         IN  FRound(FALSE, S, (x.e - k) \div 2, BMul(S, S) # M)

\* -1, 0, 1 as |x| < |y|, |x| = |y|, |x| > |y|
FCmpAbs(x, y) ==
    IF FIsZero(x) /\ FIsZero(y) THEN 0
    ELSE IF FIsZero(x) THEN -1
    ELSE IF FIsZero(y) THEN 1
    ELSE IF FTop(x) < FTop(y) THEN -1
    ELSE IF FTop(x) > FTop(y) THEN 1
    ELSE LET e == IF x.e < y.e THEN x.e ELSE y.e
         IN  BCmp(BShl(x.m, x.e - e), BShl(y.m, y.e - e))

\* -1, 0, 1 as x < y, x === y, x > y (the two zeros are equal)
FCmp(x, y) ==
    IF FIsZero(x) /\ FIsZero(y) THEN 0
    ELSE IF FIsZero(x) THEN (IF y.neg THEN 1 ELSE -1)
    ELSE IF FIsZero(y) THEN (IF x.neg THEN -1 ELSE 1)
    ELSE IF x.neg /\ ~y.neg THEN -1
    ELSE IF ~x.neg /\ y.neg THEN 1
    ELSE IF x.neg THEN FCmpAbs(y, x)
    ELSE FCmpAbs(x, y)

\* x === y
FEq(x, y) == FCmp(x, y) = 0
----------------------------------------------------------------------------
(* Exact arithmetic on the same records, with mantissas of any length:     *)
(* the real-number value of an expression over JavaScript numbers, used to *)
(* state what a computed result is compared with.                          *)

\* the real number a JavaScript number stands for: the two zeros are one
XVal(x) == IF FIsZero(x) THEN FZero(FALSE) ELSE x

XAdd(x, y) ==
    IF FIsZero(x) THEN XVal(y)
    ELSE IF FIsZero(y) THEN x
    ELSE LET e  == IF x.e < y.e THEN x.e ELSE y.e
             Mx == BShl(x.m, x.e - e)
             My == BShl(y.m, y.e - e)
             c  == BCmp(Mx, My)
         IN  IF x.neg = y.neg THEN FCanon(x.neg, BAdd(Mx, My), e)
             ELSE IF c = 0 THEN FZero(FALSE)
             ELSE IF c > 0 THEN FCanon(x.neg, BSub(Mx, My), e)
             ELSE FCanon(y.neg, BSub(My, Mx), e)

XSub(x, y) == XAdd(x, FNeg(y))

XMul(x, y) ==
    IF FIsZero(x) \/ FIsZero(y) THEN FZero(FALSE)
    ELSE FCanon(x.neg # y.neg, BMul(x.m, y.m), x.e + y.e)

\* whether the real number x is a JavaScript number
Representable(x) == BBitLen(x.m) <= 53

\* whether x is an integer
IsInteger(x) == x.e >= 0

DigitChars == <<"0", "1", "2", "3", "4", "5", "6", "7", "8", "9">>

RECURSIVE BDecimal(_)
\* the decimal digits of a, most significant first; "" for zero
BDecimal(a) ==
    IF a = <<>> THEN ""
    ELSE LET qr == BDivSmall(a, 10) IN BDecimal(qr[1]) \o DigitChars[qr[2] + 1]

RECURSIVE BDecimalLen(_)
BDecimalLen(a) == IF a = <<>> THEN 0 ELSE 1 + BDecimalLen(BDivSmall(a, 10)[1])

RECURSIVE ZeroChars(_)
ZeroChars(k) == IF k <= 0 THEN "" ELSE "0" \o ZeroChars(k - 1)

\* the integer nearest |x| * 10^f, the larger on a tie
ScaledInteger(x, f) ==
    LET P == BMul(x.m, BPow10(f))
        k == -x.e
    IN  IF x.e >= 0 THEN BShl(P, x.e)
        ELSE IF BIsOdd(BShr(P, k - 1)) THEN BAdd(BShr(P, k), <<1>>)
        ELSE BShr(P, k)

\* Number.prototype.toFixed(f) for finite |x| < 10^21 and f >= 1: the integer
\* n nearest |x| * 10^f (the larger on a tie), written with f fraction digits
toFixed(x, f) ==
    LET n    == ScaledInteger(x, f)
        ip   == BDivMod(n, BPow10(f))[1]
        fp   == BDivMod(n, BPow10(f))[2]
        sign == IF x.neg /\ ~FIsZero(x) THEN "-" ELSE ""
    IN  sign \o (IF ip = <<>> THEN "0" ELSE BDecimal(ip)) \o "."
             \o ZeroChars(f - BDecimalLen(fp)) \o BDecimal(fp)
----------------------------------------------------------------------------
(* The regression core: calculateRegression and predictPrice.              *)
(* A DataPoint is [id, area, price]; a RegressionResult is                 *)
(* [m, b, r2, rmse, equation].                                             *)

Zero == FromInt(0)

One == FromInt(1)

\* Math.pow(z, 2)
Pow2(z) == FMul(z, z)

InsufficientData == "Insufficient data points"

VerticalLine == "Undefined (Vertical Line)"

\* the four running sums before the first observation
NoSums == [sumX |-> Zero, sumY |-> Zero, sumXY |-> Zero, sumXX |-> Zero]

\* one iteration of the first forEach
SumStep(acc, p) ==
    [sumX  |-> FAdd(acc.sumX, p.area),
     sumY  |-> FAdd(acc.sumY, p.price),
     sumXY |-> FAdd(acc.sumXY, FMul(p.area, p.price)),
     sumXX |-> FAdd(acc.sumXX, FMul(p.area, p.area))]

RECURSIVE SumLoop(_, _, _)
SumLoop(data, i, acc) ==
    IF i > Len(data) THEN acc
    ELSE The({ SumLoop(data, i + 1, next) : next \in {SumStep(acc, data[i])} })

\* sumX, sumY, sumXY, sumXX after the first forEach, in input order
Sums(data) == SumLoop(data, 1, NoSums)

\* n * sumXX - sumX * sumX
Denominator(n, s) == FSub(FMul(n, s.sumXX), FMul(s.sumX, s.sumX))

\* the slope with sumXY not multiplied by n
SlopeUnscaled(n, s, denominator) ==
    FDiv(FSub(s.sumXY, FMul(s.sumX, s.sumY)), denominator)

\* m = (n * sumXY - sumX * sumY) / denominator
Slope(n, s, denominator) ==
    FDiv(FSub(FMul(n, s.sumXY), FMul(s.sumX, s.sumY)), denominator)

\* the intercept without the division by n
InterceptUndivided(n, s, m) == FSub(s.sumY, FMul(m, s.sumX))

\* b = (sumY - m * sumX) / n
Intercept(n, s, m) == FDiv(FSub(s.sumY, FMul(m, s.sumX)), n)

\* meanY = sumY / n
MeanY(n, s) == FDiv(s.sumY, n)

\* predictPrice refusing areas that are not positive
predictPriceValidated(area, m, b) ==
    IF FCmp(area, Zero) <= 0 THEN Zero ELSE FAdd(FMul(m, area), b)

\* predictPrice(area, m, b): return m * area + b
predictPrice(area, m, b) == FAdd(FMul(m, area), b)

NoSquares == [ssTot |-> Zero, ssRes |-> Zero]

\* one iteration of the second forEach
SquaresStep(acc, p, m, b, meanY) ==
    LET predictedY == FAdd(FMul(m, p.area), b)
    IN  [ssTot |-> FAdd(acc.ssTot, Pow2(FSub(p.price, meanY))),
         ssRes |-> FAdd(acc.ssRes, Pow2(FSub(p.price, predictedY)))]

RECURSIVE SquaresLoop(_, _, _, _, _, _)
SquaresLoop(data, i, acc, m, b, meanY) ==
    IF i > Len(data) THEN acc
    ELSE The({ SquaresLoop(data, i + 1, next, m, b, meanY) :
                   next \in {SquaresStep(acc, data[i], m, b, meanY)} })

\* ssTot and ssRes after the second forEach
Squares(data, m, b, meanY) == SquaresLoop(data, 1, NoSquares, m, b, meanY)

\* r2 forced into [0, 1]
RSquaredClamped(ss) ==
    LET r2 == IF FEq(ss.ssTot, Zero) THEN Zero ELSE FSub(One, FDiv(ss.ssRes, ss.ssTot))
    IN  IF FCmp(r2, Zero) < 0 THEN Zero ELSE r2

\* r2 with the ratio added instead of subtracted
RSquaredAdded(ss) ==
    IF FEq(ss.ssTot, Zero) THEN Zero ELSE FAdd(One, FDiv(ss.ssRes, ss.ssTot))

\* r2 = ssTot === 0 ? 0 : 1 - ssRes / ssTot
RSquared(ss) ==
    IF FEq(ss.ssTot, Zero) THEN Zero ELSE FSub(One, FDiv(ss.ssRes, ss.ssTot))

\* rmse = Math.sqrt(ssRes / n)
Rmse(n, ss) == FSqrt(FDiv(ss.ssRes, n))

\* `y = ${m.toFixed(4)}x + ${b.toFixed(2)}`
Equation(m, b) == "y = " \o toFixed(m, 4) \o "x + " \o toFixed(b, 2)

\* the sentinel returned when the denominator is zero
Sentinel == [m |-> Zero, b |-> Zero, r2 |-> Zero, rmse |-> Zero, equation |-> VerticalLine]

\* the result returned for a non-zero denominator
Fitted(data, n, s, denominator) ==
    The({ The({ The({ [m |-> m, b |-> b, r2 |-> RSquared(ss), rmse |-> Rmse(n, ss),
                       equation |-> Equation(m, b)] :
                          ss \in {Squares(data, m, b, meanY)} }) :
                    b \in {Intercept(n, s, m)}, meanY \in {MeanY(n, s)} }) :
              m \in {Slope(n, s, denominator)} })

\* The outcome of calculateRegression(data): [threw |-> TRUE, message] when
\* it throws, [threw |-> FALSE, value |-> the RegressionResult] when it returns.
calculateRegression(data) ==
    LET n == FromInt(Len(data))
    IN  IF Len(data) < 2 THEN [threw |-> TRUE, message |-> InsufficientData]
        ELSE The({ The({ IF FEq(denominator, Zero)
                         THEN [threw |-> FALSE, value |-> Sentinel]
                         ELSE [threw |-> FALSE, value |-> Fitted(data, n, s, denominator)] :
                            denominator \in {Denominator(n, s)} }) :
                   s \in {Sums(data)} })
----------------------------------------------------------------------------
(* The page: its helper functions.                                         *)
(* The text of an input field is a sequence of one-character strings.      *)
(* A number is a finite JavaScript number, NaN, Infinity or -Infinity.      *)

NaN == [nan |-> TRUE]

Infinity == [inf |-> TRUE, neg |-> FALSE]

NegInfinity == [inf |-> TRUE, neg |-> TRUE]

\* null, where the other values are objects or numbers
null == [null |-> TRUE]

\* null, where the other values are strings
nullString == "null"

\* Number.isFinite(v)
IsFinite(v) == v \notin {NaN, Infinity, NegInfinity}

Digits == {"0", "1", "2", "3", "4", "5", "6", "7", "8", "9"}

LowerHex == DigitChars \o <<"a", "b", "c", "d", "e", "f">>

UpperHex == DigitChars \o <<"A", "B", "C", "D", "E", "F">>

\* the value of a digit of a literal, hexadecimal digits included
DigitValue(c) == CHOOSE d \in 0..15 : c \in {LowerHex[d + 1], UpperHex[d + 1]}

\* the white space and line terminators of ECMAScript that an ASCII text
\* can hold: space, tab, line feed, form feed, carriage return, and the
\* vertical tab (written as the character itself)
WhiteSpace == {" ", "\t", "\n", "\f", "\r", ""}

\* v.replace(/,/g, "")
RemoveCommas(v) == SelectSeq(v, LAMBDA c : c # ",")

\* the positions of v that hold none of the characters of S
Outside(v, S) == { i \in 1..Len(v) : v[i] \notin S }

\* v from the first character that is not in S on
DropLeading(v, S) ==
    IF Outside(v, S) = {} THEN <<>>
    ELSE SubSeq(v, CHOOSE i \in Outside(v, S) : \A j \in 1..(i - 1) : v[j] \in S, Len(v))

\* v up to the last character that is not in S
DropTrailing(v, S) ==
    IF Outside(v, S) = {} THEN <<>>
    ELSE SubSeq(v, 1, CHOOSE i \in Outside(v, S) : \A j \in (i + 1)..Len(v) : v[j] \in S)

\* v.trimStart()
TrimStart(v) == DropLeading(v, WhiteSpace)

\* v.trimEnd()
TrimEnd(v) == DropTrailing(v, WhiteSpace)

\* v.trim()
Trim(v) == TrimEnd(TrimStart(v))

RECURSIVE DigitsFrom(_, _, _, _, _)
\* the integer written in the given radix by the digits lo..hi of v, after
\* the integer acc
DigitsFrom(v, radix, lo, hi, acc) ==
    IF lo = hi
    THEN BAdd(BMulSmall(acc, radix), BFromInt(DigitValue(v[lo])))
    ELSE The({ DigitsFrom(v, radix, (lo + hi) \div 2 + 1, hi, L) :
                   L \in {DigitsFrom(v, radix, lo, (lo + hi) \div 2, acc)} })

\* the integer written in the given radix by the digits v
DigitsToBig(v, radix) ==
    IF v = <<>> THEN <<>> ELSE DigitsFrom(v, radix, 1, Len(v), <<>>)

\* the integer a, for a below 2^31
BToInt(a) == Limb(a, 1) + Base * Limb(a, 2) + Base * Base * Limb(a, 3)

\* v without its leading zeros
DropZeros(v) == DropLeading(v, {"0"})

\* the number nearest (-1)^neg * N / D for naturals N and D > 0: rounded to
\* 53 bits, to a multiple of 2^-1074 below 2^-1022, and to an infinity from
\* 2^1024 on
FRatio(neg, N, D) ==
    IF N = <<>> THEN FZero(neg)
    ELSE The({ The({ The({
             IF FTop(x) > 1024 THEN (IF neg THEN NegInfinity ELSE Infinity)
             ELSE IF FTop(x) >= -1021 THEN x
             ELSE The({ The({
                      FCanon(neg,
                             IF BIsOdd(sr[1]) /\ (sr[2] # <<>> \/ BIsOdd(kept))
                             THEN BAdd(kept, <<1>>)
                             ELSE kept,
                             -1074) :
                          kept \in {BShr(sr[1], 1)} }) :
                      sr \in {BDivMod(BShl(N, 1075), D)} }) :
                 x \in {FRound(neg, qr[1], -k, qr[2] # <<>>)} }) :
             qr \in {BDivMod(BShl(N, k), D)} }) :
             k \in {IF 55 + BBitLen(D) - BBitLen(N) < 0 THEN 0
                    ELSE 55 + BBitLen(D) - BBitLen(N)} })

\* the digits of each radix and the letters that prefix its literals
RadixDigits(c) ==
    IF c \in {"x", "X"}
    THEN [radix |-> 16, digits |-> { LowerHex[i] : i \in 1..16 } \cup { UpperHex[i] : i \in 1..16 }]
    ELSE IF c \in {"o", "O"}
    THEN [radix |-> 8, digits |-> {"0", "1", "2", "3", "4", "5", "6", "7"}]
    ELSE IF c \in {"b", "B"}
    THEN [radix |-> 2, digits |-> {"0", "1"}]
    ELSE [radix |-> 0, digits |-> {}]

\* whether v is a hexadecimal, octal or binary integer literal
IsRadixLiteral(v) ==
    /\ Len(v) >= 3
    /\ v[1] = "0"
    /\ \A i \in 3..Len(v) : v[i] \in RadixDigits(v[2]).digits

\* the number of leading significant digits of a literal that are read one
\* by one
Kept == 800

\* the value of the unsigned decimal literal u (digits, at most one ".", an
\* optional exponent part), negated if neg; NaN when u is no such literal.
\* The value is sig * 10^E, where sig is the digits without the zeros at
\* either end and E is the written exponent, less the number of fraction
\* digits, plus the number of zeros dropped at the end.
\* A written exponent of `far` or more gives the same value as `far`, an
\* infinity or a zero, since u has fewer than `far` digits; so E is computed
\* from the smaller of the two.  The digits after the first Kept of sig
\* decide the value only by whether they are all zero, since the numbers
\* and the midpoints between adjacent numbers have fewer than Kept
\* significant digits; so they are read as one digit 1.
DecimalToNumber(neg, u) ==
    The({ The({ The({ The({ The({ The({
    LET literal  == /\ Cardinality(es) <= 1
                    /\ Cardinality(points) <= 1
                    /\ Len(ip) + Len(fp) >= 1
                    /\ \A i \in 1..Len(ip) : ip[i] \in Digits
                    /\ \A i \in 1..Len(fp) : fp[i] \in Digits
                    /\ es # {} => edigits # <<>>
                    /\ \A i \in 1..Len(edigits) : edigits[i] \in Digits
        digits   == DropZeros(ip \o fp)
        sig      == DropTrailing(digits, {"0"})
        read     == IF Len(sig) > Kept THEN SubSeq(sig, 1, Kept) \o <<"1">> ELSE sig
        written  == DigitsToBig(DropZeros(edigits), 10)
        far      == Len(u) + 400
        emag     == IF BCmp(written, BFromInt(far)) >= 0 THEN far ELSE BToInt(written)
    IN  IF ~literal THEN NaN
        ELSE The({ The({ The({ The({
                 IF N = <<>> THEN FZero(neg)
                 ELSE IF E + nd - 1 >= 309 THEN (IF neg THEN NegInfinity ELSE Infinity)
                 ELSE IF E + nd <= -324 THEN FZero(neg)
                 ELSE IF E >= 0 THEN FRatio(neg, BMul(N, BPow10(E)), <<1>>)
                 ELSE FRatio(neg, N, BPow10(-E)) :
                     E \in {(IF esigned /\ Head(expo) = "-" THEN -emag ELSE emag)
                                - Len(fp) + (Len(digits) - nd)} }) :
                     nd \in {Len(r)} }) :
                     N \in {DigitsToBig(r, 10)} }) :
                     r \in {read} }) :
        ip      \in {SubSeq(mant, 1, point - 1)},
        fp      \in {SubSeq(mant, point + 1, Len(mant))} }) :
        point   \in {IF points = {} THEN Len(mant) + 1 ELSE CHOOSE i \in points : TRUE},
        edigits \in {IF esigned THEN Tail(expo) ELSE expo} }) :
        points  \in {{ i \in 1..Len(mant) : mant[i] = "." }},
        esigned \in {expo # <<>> /\ Head(expo) \in {"-", "+"}} }) :
        mant    \in {SubSeq(u, 1, epos - 1)},
        expo    \in {SubSeq(u, epos + 1, Len(u))} }) :
        epos    \in {IF es = {} THEN Len(u) + 1 ELSE CHOOSE i \in es : TRUE} }) :
        es      \in {{ i \in 1..Len(u) : u[i] \in {"e", "E"} }} })

\* the value of the numeric literal v, a non-empty text without surrounding
\* white space; NaN when v is no numeric literal.  A hexadecimal, octal or
\* binary literal of more than 1024 significant digits is 2^1024 or more.
LiteralToNumber(v) ==
    The({ IF unsigned = <<"I", "n", "f", "i", "n", "i", "t", "y">>
          THEN (IF neg THEN NegInfinity ELSE Infinity)
          ELSE IF IsRadixLiteral(v)
          THEN (IF Len(DropZeros(SubSeq(v, 3, Len(v)))) > 1024 THEN Infinity
                ELSE FRatio(FALSE, DigitsToBig(DropZeros(SubSeq(v, 3, Len(v))), RadixDigits(v[2]).radix), <<1>>))
          ELSE DecimalToNumber(neg, unsigned) :
              neg      \in {Head(v) = "-"},
              unsigned \in {IF Head(v) \in {"-", "+"} THEN Tail(v) ELSE v} })

\* Number(v): 0 for a text of white space only, else the number nearest the
\* numeric literal that v holds between white space, NaN when it holds none
ToNumber(v) ==
    The({ IF t = <<>> THEN FZero(FALSE) ELSE LiteralToNumber(t) :
              t \in {Trim(v)} })

\* parseNumber(v)
parseNumber(v) ==
    The({ IF cleaned = <<>> THEN NaN ELSE ToNumber(cleaned) :
              cleaned \in {Trim(RemoveCommas(v))} })

\* validateArea(area); the messages are written with <= for the source's
\* less-than-or-equal sign
validateArea(area) ==
    IF ~IsFinite(area) THEN "Area is required."
    ELSE IF FCmp(area, Zero) <= 0 THEN "Area must be a positive number."
    ELSE IF FCmp(area, FromInt(10000)) > 0 THEN "Area must be <= 10,000."
    ELSE nullString

\* validatePrice(price)
validatePrice(price) ==
    IF ~IsFinite(price) THEN "Price is required."
    ELSE IF FCmp(price, Zero) <= 0 THEN "Price must be a positive number."
    ELSE IF FCmp(price, FromInt(100000000)) > 0 THEN "Price must be <= $100,000,000."
    ELSE nullString

RECURSIVE BDigits(_)
\* the decimal digits of a, most significant first; <<>> for zero
BDigits(a) ==
    IF a = <<>> THEN <<>>
    ELSE LET qr == BDivSmall(a, 10) IN BDigits(qr[1]) \o <<DigitChars[qr[2] + 1]>>

\* the decimal digits of the natural k; "0" for zero
IntDigits(k) == IF k = 0 THEN <<"0">> ELSE BDigits(BFromInt(k))

Max(a, b) == IF a > b THEN a ELSE b

\* whether the decimal s * 10^-p reads back as |x|
ReadsBack(x, s, p) ==
    FRatio(FALSE, BMul(s, BPow10(Max(-p, 0))), BPow10(Max(p, 0))) = [x EXCEPT !.neg = FALSE]

\* of the naturals s such that s * 10^-p reads back as |x|, the one nearest
\* |x| * 10^p, the even one of two equally near; <<>> if there is none.
\* |x| * 10^p is N / D; the naturals next to it are the quotient lo and,
\* unless lo is N / D, lo + 1.
NearestAt(x, p) ==
    The({ The({ The({ The({ The({ The({
        IF okLo /\ okHi
        THEN (IF BCmp(BShl(qr[2], 1), D) < 0 THEN qr[1]
              ELSE IF BCmp(BShl(qr[2], 1), D) > 0 THEN hi
              ELSE IF BIsOdd(hi) THEN qr[1] ELSE hi)
        ELSE IF okLo THEN qr[1]
        ELSE IF okHi THEN hi
        ELSE <<>> :
            okHi \in {qr[2] # <<>> /\ ReadsBack(x, hi, p)} }) :
            okLo \in {qr[1] # <<>> /\ ReadsBack(x, qr[1], p)} }) :
            hi \in {BAdd(qr[1], <<1>>)} }) :
            qr \in {BDivMod(N, D)} }) :
            D \in {BMul(BShl(<<1>>, Max(-x.e, 0)), BPow10(Max(-p, 0)))} }) :
            N \in {BMul(BShl(x.m, Max(x.e, 0)), BPow10(Max(p, 0)))} })

RECURSIVE ShortestFrom(_, _)
\* the least q >= p such that some s * 10^-q reads back as |x|, and the
\* nearest such s
ShortestFrom(x, p) ==
    The({ IF s # <<>> THEN [p |-> p, s |-> s] ELSE ShortestFrom(x, p + 1) :
            s \in {NearestAt(x, p)} })

\* the shortest decimal that reads back as |x|, for a finite x # 0: its
\* digits and the number n with 10^(n-1) <= digits * 10^(n - Len(digits)) < 10^n.
\* An integer below 2^53 differs by 1 or more from every other decimal that
\* has no more digits, and by less from the numbers next to it: its shortest
\* decimal is its own digits, less the zeros at their end.  For another x,
\* |x| is below 2^FTop(x), which is below the power of 10 the search starts
\* from, with no digit before the point.
Shortest(x) ==
    IF IsInteger(x) /\ FTop(x) <= 53
    THEN The({ [digits |-> DropTrailing(ds, {"0"}), n |-> Len(ds)] :
                 ds \in {BDigits(BShl(x.m, x.e))} })
    ELSE The({ [digits |-> BDigits(r.s), n |-> Len(BDigits(r.s)) - r.p] :
                 r \in {ShortestFrom(x, -((FTop(x) * 30103) \div 100000 + 2))} })

\* String(x) for a number x, that is Number::toString(x) in radix 10, and
\* for null
String(x) ==
    IF x = null THEN <<"n", "u", "l", "l">>
    ELSE IF x = NaN THEN <<"N", "a", "N">>
    ELSE IF x = Infinity THEN <<"I", "n", "f", "i", "n", "i", "t", "y">>
    ELSE IF x = NegInfinity THEN <<"-", "I", "n", "f", "i", "n", "i", "t", "y">>
    ELSE IF FIsZero(x) THEN <<"0">>
    ELSE The({
        (IF x.neg THEN <<"-">> ELSE <<>>) \o
        (IF Len(d.digits) <= d.n /\ d.n <= 21
         THEN d.digits \o [i \in 1..(d.n - Len(d.digits)) |-> "0"]
         ELSE IF 0 < d.n /\ d.n <= 21
         THEN SubSeq(d.digits, 1, d.n) \o <<".">> \o SubSeq(d.digits, d.n + 1, Len(d.digits))
         ELSE IF -6 < d.n /\ d.n <= 0
         THEN <<"0", ".">> \o [i \in 1..(-d.n) |-> "0"] \o d.digits
         ELSE <<Head(d.digits)>>
                  \o (IF Len(d.digits) = 1 THEN <<>> ELSE <<".">> \o Tail(d.digits))
                  \o <<"e", IF d.n - 1 < 0 THEN "-" ELSE "+">>
                  \o IntDigits(IF d.n - 1 < 0 THEN 1 - d.n ELSE d.n - 1)) :
            d \in {Shortest(x)} })

\* whether a string-or-null value is truthy
Truthy(s) == s # nullString /\ s # ""

----------------------------------------------------------------------------
(* The page: its state.                                                    *)

VARIABLES
    data,           \* useState<DataPoint[]>([])
    area,           \* the text of the training form's area field
    price,          \* the text of the training form's price field
    editId,         \* the id of the point being edited, or null
    formError,
    areaError,
    priceError,
    model,          \* the RegressionResult of the last training, or null
    trainError,
    predictArea,    \* the text of the prediction form's area field
    predictError,
    predictedPrice, \* a number or null
    storage,        \* the point list kept under STORAGE_KEY, or null
    effects,        \* the effects not yet run: "mount", "data" or "none"
    queued,         \* the updates made by effects and not yet rendered
    created,        \* the number of ids nanoid has made
    unified         \* whether a handler's render applies the queued updates too

pageVars ==
    <<data, area, price, editId, formError, areaError, priceError, model,
      trainError, predictArea, predictError, predictedPrice, storage, effects,
      queued, created, unified>>

\* no update is queued: no point list, and none of the states that the
\* resetting effect sets
NoUpdates == [data |-> null, reset |-> {}]

\* the useState initial values, before any effect has run
InitialState ==
    /\ data = <<>>
    /\ area = <<>>
    /\ price = <<>>
    /\ editId = nullString
    /\ formError = ""
    /\ areaError = nullString
    /\ priceError = nullString
    /\ model = null
    /\ trainError = ""
    /\ predictArea = <<>>
    /\ predictError = ""
    /\ predictedPrice = null
    /\ effects = "mount"
    /\ queued = NoUpdates
    /\ created = 0

----------------------------------------------------------------------------
(* One call of calculateRegression, statement by statement, followed by    *)
(* one call of predictPrice.                                               *)

VARIABLES
    callData,   \* the argument `data` of the call
    pc,         \* the statement the call is at
    frame,      \* the locals assigned so far, by name
    outcome,    \* how the call ended: None, a throw, or a returned value
    prediction  \* the last predictPrice call: None, or [area, m, b, price]

coreVars == <<callData, pc, frame, outcome, prediction>>

vars == <<coreVars, pageVars>>

None == [none |-> TRUE]

\* the number a decimal literal d * 10^-k denotes
Decimal(d, k) == FDiv(FromInt(d), FromInt(10 ^ k))

MaxLen == 3

\* the observations the calls are made with, as (area, price) literals
Observations ==
    { [id |-> "a", area |-> Decimal(1, 1), price |-> Decimal(1, 1)],
      [id |-> "b", area |-> Decimal(2, 1), price |-> Decimal(1, 1)],
      [id |-> "c", area |-> Decimal(2, 1), price |-> FromInt(1)],
      [id |-> "d", area |-> Decimal(3, 1), price |-> Decimal(1, 1)],
      [id |-> "e", area |-> FromInt(1), price |-> FromInt(1)],
      [id |-> "f", area |-> FromInt(1), price |-> FromInt(4)],
      [id |-> "g", area |-> FromInt(2), price |-> FromInt(2)] }

SeqsUpTo(S, k) == UNION { [1..len -> S] : len \in 0..k }

Inputs == SeqsUpTo(Observations, MaxLen)

\* the areas predictPrice is called with: zero, negative, fractional, large
PredictAreas ==
    { FromInt(0), FromInt(-2), FromInt(10), FromInt(75), Decimal(3, 1),
      FCanon(FALSE, <<1>>, 60) }

CoreInit ==
    /\ callData \in Inputs
    /\ pc = "length"
    /\ frame = << >>
    /\ outcome = None
    /\ prediction = None
    /\ InitialState
    /\ storage = null
    /\ unified = FALSE

\* the length check with n < 1 in place of n < 2
CheckLengthOffByOne ==
    /\ pc = "length"
    /\ frame' = [n |-> FromInt(Len(callData))]
    /\ IF Len(callData) < 1
       THEN /\ outcome' = [threw |-> TRUE, message |-> InsufficientData]
            /\ pc' = "done"
       ELSE /\ outcome' = outcome
            /\ pc' = "sums"
    /\ UNCHANGED <<callData, prediction, pageVars>>

\* const n = data.length; if (n < 2) throw new Error(...)
CheckLength ==
    /\ pc = "length"
    /\ frame' = [n |-> FromInt(Len(callData))]
    /\ IF Len(callData) < 2
       THEN /\ outcome' = [threw |-> TRUE, message |-> InsufficientData]
            /\ pc' = "done"
       ELSE /\ outcome' = outcome
            /\ pc' = "sums"
    /\ UNCHANGED <<callData, prediction, pageVars>>

\* let sumX = 0 ... data.forEach(...)
SumPass ==
    /\ pc = "sums"
    /\ frame' = frame @@ Sums(callData)
    /\ pc' = "denominator"
    /\ UNCHANGED <<callData, outcome, prediction, pageVars>>

\* const denominator = ...; if (denominator === 0) return { ... }
CheckDenominator ==
    /\ pc = "denominator"
    /\ LET denominator == Denominator(frame.n, frame)
       IN  /\ frame' = frame @@ [denominator |-> denominator]
           /\ IF FEq(denominator, Zero)
              THEN /\ outcome' = [threw |-> FALSE, value |-> Sentinel]
                   /\ pc' = "done"
              ELSE /\ outcome' = outcome
                   /\ pc' = "fit"
    /\ UNCHANGED <<callData, prediction, pageVars>>

\* const m = ...; const b = ...
FitLine ==
    /\ pc = "fit"
    /\ LET m == Slope(frame.n, frame, frame.denominator)
       IN  frame' = frame @@ [m |-> m, b |-> Intercept(frame.n, frame, m)]
    /\ pc' = "squares"
    /\ UNCHANGED <<callData, outcome, prediction, pageVars>>

\* let ssTot = 0 ... const meanY = ...; data.forEach(...)
SquaresPass ==
    /\ pc = "squares"
    /\ LET meanY == MeanY(frame.n, frame)
       IN  frame' = frame @@ [meanY |-> meanY]
                          @@ Squares(callData, frame.m, frame.b, meanY)
    /\ pc' = "metrics"
    /\ UNCHANGED <<callData, outcome, prediction, pageVars>>

\* const r2 = ...; const rmse = ...; return { m, b, r2, rmse, equation }
Return ==
    /\ pc = "metrics"
    /\ LET r2   == RSquared(frame)
           rmse == Rmse(frame.n, frame)
       IN  /\ frame' = frame @@ [r2 |-> r2, rmse |-> rmse]
           /\ outcome' = [threw |-> FALSE,
                          value |-> [m |-> frame.m, b |-> frame.b, r2 |-> r2,
                                     rmse |-> rmse,
                                     equation |-> Equation(frame.m, frame.b)]]
    /\ pc' = "done"
    /\ UNCHANGED <<callData, prediction, pageVars>>

\* the lines predictPrice is called with: the line just fitted, and y = 2x + 3
Lines == { [m |-> FromInt(2), b |-> FromInt(3)] }
             \cup (IF outcome # None /\ ~outcome.threw
                   THEN { [m |-> outcome.value.m, b |-> outcome.value.b] }
                   ELSE {})

\* predictPrice(area, m, b)
Predict ==
    /\ pc = "done"
    /\ prediction = None
    /\ \E x \in PredictAreas, line \in Lines :
           prediction' = [area |-> x, m |-> line.m, b |-> line.b,
                          price |-> predictPrice(x, line.m, line.b)]
    /\ UNCHANGED <<callData, pc, frame, outcome, pageVars>>

CoreNext ==
    \/ CheckLength
    \/ SumPass
    \/ CheckDenominator
    \/ FitLine
    \/ SquaresPass
    \/ Return
    \/ Predict

SpecCore == CoreInit /\ [][CoreNext]_vars

\* observations for the calls that fit a line: integer observations on the
\* line y = 2000x (50, 100000), (100, 200000), (150, 300000), on the line
\* y = x / 2 + 1 / 2 (1, 1), (3, 2), off it (2, 3), and the decimal
\* observation (0.2, 0.1)
FitObservations ==
    { [id |-> "p", area |-> FromInt(50), price |-> FromInt(100000)],
      [id |-> "q", area |-> FromInt(100), price |-> FromInt(200000)],
      [id |-> "r", area |-> FromInt(150), price |-> FromInt(300000)],
      [id |-> "e", area |-> FromInt(1), price |-> FromInt(1)],
      [id |-> "h", area |-> FromInt(3), price |-> FromInt(2)],
      [id |-> "z", area |-> FromInt(2), price |-> FromInt(3)],
      [id |-> "b", area |-> Decimal(2, 1), price |-> Decimal(1, 1)] }

FitInputs == SeqsUpTo(FitObservations, MaxLen)

FitInit ==
    /\ callData \in FitInputs
    /\ pc = "length"
    /\ frame = << >>
    /\ outcome = None
    /\ prediction = None
    /\ InitialState
    /\ storage = null
    /\ unified = FALSE

SpecFit == FitInit /\ [][CoreNext]_vars
----------------------------------------------------------------------------
(* The page: its effects and its event handlers.                           *)
(* The page is a client component of a Next.js App Router application      *)
(* (README.md), which runs on React 18 or later.  There:                   *)
(*  - the updates an event handler makes are rendered when the handler     *)
(*    returns, and the effects of that render are run before the next      *)
(*    event is handled: an action of a handler is the handler, its render  *)
(*    and the effects of that render;                                      *)
(*  - an update made by an effect (lines 81 and 98-101) is queued: a later *)
(*    render applies it, and events can be handled before that render;     *)
(*  - the effects of that later render, and of the first render, are run   *)
(*    later still, and events can be handled before they run: the pending  *)
(*    effects then run when the handler returns, before its render, and    *)
(*    the updates they make are queued after the handler's;                *)
(*  - the handlers are the ones of the last render: they read the state    *)
(*    as it was rendered, and only the controls that render shows enabled  *)
(*    can be used.                                                         *)
(* What the render of a handler does with the updates that effects have    *)
(* queued depends on the React of the build, which the repository does not *)
(* fix (unified):                                                          *)
(*  - React 18 leaves them to the later render.  A state keeps its queue   *)
(*    from the first update left out: the render of a handler sets such a  *)
(*    state to what the handlers' updates behind that one give on the      *)
(*    value before it, and the later render to what they give once it is   *)
(*    applied.  A function given to setData is thus called again in every  *)
(*    render while setData(parsed) of line 81 is left out, nanoid() with   *)
(*    it, and each call makes a new list, for which the effects of lines   *)
(*    88-102 run again;                                                    *)
(*  - React 19 applies them in the render of the handler, in the order in  *)
(*    which the updates were made.                                         *)

\* a point is added only while nanoid has made fewer than MaxAdded ids
MaxAdded == 1

\* nanoid is called only while it has made fewer than MaxCreated ids
MaxCreated == 3

\* the text JSON.stringify writes for a number
JSONNumber(x) == IF IsFinite(x) THEN String(x) ELSE <<"n", "u", "l", "l">>

\* JSON.stringify(points): the points in their order, each with its id and
\* the texts of its area and of its price.  The ids need no escape.
JSONstringify(points) ==
    [json |-> [i \in 1..Len(points) |->
                  The({ [id    |-> d.id,
                         area  |-> JSONNumber(d.area),
                         price |-> JSONNumber(d.price)] : d \in {points[i]} })]]

\* the value JSON.parse reads from the text of a number or of null
JSONValue(t) == IF t = <<"n", "u", "l", "l">> THEN null ELSE LiteralToNumber(t)

\* JSON.parse(raw), for a raw written by JSON.stringify
JSONparse(raw) ==
    [i \in 1..Len(raw.json) |->
        [id    |-> raw.json[i].id,
         area  |-> JSONValue(raw.json[i].area),
         price |-> JSONValue(raw.json[i].price)]]

\* the items found under STORAGE_KEY when the page is opened
StoredItems ==
    { null,
      JSONstringify(<<[id |-> "a", area |-> FromInt(1), price |-> FromInt(1)],
                      [id |-> "b", area |-> FromInt(2), price |-> FromInt(4)]>>) }

\* what is typed into the area field of the training form
AreaTexts == { <<"2">> }

\* what is typed into the price field of the training form
PriceTexts == { <<"4">> }

\* what is typed into the area field of the prediction form
PredictTexts == { <<"1", "0">> }

\* nanoid(): an id never made before
nanoid(k) == "n" \o ToString(k + 1)

\* no call of the regression core is being followed
NoCall ==
    /\ callData = <<>>
    /\ pc = "idle"
    /\ frame = << >>
    /\ outcome = None
    /\ prediction = None

Init ==
    /\ InitialState
    /\ storage \in StoredItems
    /\ unified \in BOOLEAN
    /\ NoCall

\* prev.map((d) => (d.id === editId ? { ...d, area: a, price: p } : d)),
\* with the editId of the render whose handler gave the function
Edited(prev, id, a, p) ==
    [i \in 1..Len(prev) |->
        IF prev[i].id = id THEN [prev[i] EXCEPT !.area = a, !.price = p]
        ELSE prev[i]]

\* [...prev, { id, area: a, price: p }]
Added(prev, id, a, p) == Append(prev, [id |-> id, area |-> a, price |-> p])

\* prev.filter((d) => d.id !== id)
Without(prev, id) == SelectSeq(prev, LAMBDA d : d.id # id)

RECURSIVE Applied(_, _, _)
\* The functions given to setData at lines 127, 130 and 149 (updaters, each
\* with its kind and the id, a and p of its closure), called in their order
\* on prev when nanoid has made k ids: the list they give, and the number
\* of ids made then.
Applied(updaters, prev, k) ==
    IF updaters = <<>> THEN [list |-> prev, created |-> k]
    ELSE LET u == Head(updaters)
         IN  Applied(Tail(updaters),
                 CASE u.kind = "add"    -> Added(prev, nanoid(k), u.area, u.price)
                   [] u.kind = "edit"   -> Edited(prev, u.id, u.area, u.price)
                   [] u.kind = "remove" -> Without(prev, u.id),
                 IF u.kind = "add" THEN k + 1 ELSE k)

\* the states the resetting effect sets that do not hold the value it sets
\* them to, among a model, a predicted price, a training error and a
\* prediction error
StaleOf(m, y, te, pe) ==
    (IF m # null THEN {"model"} ELSE {})
        \cup (IF y # null THEN {"predictedPrice"} ELSE {})
        \cup (IF te # "" THEN {"trainError"} ELSE {})
        \cup (IF pe # "" THEN {"predictError"} ELSE {})

\* The effects pending after a render, run before any event is handled: on
\* mount the loading effect, which queues the stored list, then in both
\* cases the persisting effect and the resetting effect, which queues its
\* four updates.  The queued list is kept with the list rendered when it
\* was queued (base) and the functions given to setData since (updaters).
RunEffects ==
    /\ effects # "none"
    /\ queued' = [data  |-> IF effects = "mount" /\ storage # null
                            THEN [list     |-> JSONparse(storage),
                                  base     |-> data,
                                  updaters |-> <<>>]
                            ELSE queued.data,
                  reset |-> queued.reset
                                \cup StaleOf(model, predictedPrice, trainError,
                                             predictError)]
    /\ storage' = JSONstringify(data)
    /\ effects' = "none"
    /\ UNCHANGED <<data, area, price, editId, formError, areaError, priceError,
                   model, trainError, predictArea, predictError, predictedPrice,
                   created, unified, coreVars>>

\* the render that applies the queued updates, the functions given to
\* setData since the list was queued included; a new point list has the
\* effects of lines 88-102 pending
Render ==
    /\ effects = "none"
    /\ queued # NoUpdates
    /\ IF queued.data # null
       THEN \E r \in {Applied(queued.data.updaters, queued.data.list, created)} :
                /\ r.created <= MaxCreated
                /\ data' = r.list
                /\ created' = r.created
                /\ effects' = "data"
       ELSE UNCHANGED <<data, created, effects>>
    /\ model' = IF "model" \in queued.reset THEN null ELSE model
    /\ predictedPrice' = IF "predictedPrice" \in queued.reset THEN null ELSE predictedPrice
    /\ trainError' = IF "trainError" \in queued.reset THEN "" ELSE trainError
    /\ predictError' = IF "predictError" \in queued.reset THEN "" ELSE predictError
    /\ queued' = NoUpdates
    /\ UNCHANGED <<area, price, editId, formError, areaError, priceError,
                   predictArea, storage, unified, coreVars>>

\* What follows the body of an event handler, in the same step.  The
\* handler has set the states of lines 67-73 that set names to the values
\* set gives, and has given setData the functions updaters (none or one).
\* Effects that were pending run first: the loading effect queues the
\* stored list, the persisting effect writes the rendered list, and the
\* resetting effect queues its updates, all behind the handler's.  Then
\* comes the render of the handler.  With React 18 it leaves out what the
\* effects queued: it calls the functions given to setData since a list was
\* queued, first to last, on the list rendered then, and keeps them and the
\* queued resets for the later render, less the resets of the states that
\* the handler set.  With React 19 it applies what the effects queued as
\* well, each update in its turn.  If the render made a new list, the
\* effects of lines 88-102 run on it: the list is written, and the resets
\* of the states that hold a value are queued.
Handled(set, updaters) ==
    /\ effects' = "none"
    /\ unified' = unified
    /\ \E loaded \in {effects = "mount" /\ storage # null} :
       \E parsed \in {IF loaded THEN JSONparse(storage) ELSE <<>>},
          behind \in {IF queued.data # null /\ ~unified
                      THEN queued.data.updaters \o updaters
                      ELSE updaters} :
       \E r \in {Applied(behind,
                         IF queued.data = null THEN data
                         ELSE IF unified THEN queued.data.list
                         ELSE queued.data.base,
                         created)},
          changed \in {\/ behind # <<>>
                       \/ unified /\ (loaded \/ queued.data # null)} :
       \E m  \in {IF unified /\ effects # "none" THEN null
                  ELSE IF "model" \in DOMAIN set THEN set.model
                  ELSE IF unified /\ "model" \in queued.reset THEN null
                  ELSE model},
          y  \in {IF unified /\ effects # "none" THEN null
                  ELSE IF "predictedPrice" \in DOMAIN set THEN set.predictedPrice
                  ELSE IF unified /\ "predictedPrice" \in queued.reset THEN null
                  ELSE predictedPrice},
          te \in {IF unified /\ effects # "none" THEN ""
                  ELSE IF "trainError" \in DOMAIN set THEN set.trainError
                  ELSE IF unified /\ "trainError" \in queued.reset THEN ""
                  ELSE trainError},
          pe \in {IF unified /\ effects # "none" THEN ""
                  ELSE IF "predictError" \in DOMAIN set THEN set.predictError
                  ELSE IF unified /\ "predictError" \in queued.reset THEN ""
                  ELSE predictError} :
           /\ r.created <= MaxCreated
           /\ created' = r.created
           /\ data' = IF unified /\ loaded THEN parsed ELSE r.list
           /\ model' = m
           /\ predictedPrice' = y
           /\ trainError' = te
           /\ predictError' = pe
           /\ storage' = IF effects # "none" \/ changed
                         THEN JSONstringify(data')
                         ELSE storage
           /\ queued' =
                  [data  |-> IF unified THEN null
                             ELSE IF loaded
                             THEN [list     |-> parsed,
                                   base     |-> r.list,
                                   updaters |-> <<>>]
                             ELSE IF queued.data # null
                             THEN [queued.data EXCEPT !.updaters = behind]
                             ELSE null,
                   reset |-> (IF unified THEN {} ELSE queued.reset \ DOMAIN set)
                                 \cup (IF effects # "none" \/ changed
                                       THEN StaleOf(m, y, te, pe)
                                       ELSE {})]

\* a handler that sets none of the states of lines 67-73
SetsNone == [s \in {} |-> null]

\* onChange of the training form's area field
setArea ==
    /\ \E v \in AreaTexts : area' = v
    /\ UNCHANGED <<price, editId, formError, areaError, priceError, predictArea,
                   coreVars>>
    /\ Handled(SetsNone, <<>>)

\* onBlur of the training form's area field
onBlurArea ==
    /\ \E a \in {parseNumber(area)} : areaError' = validateArea(a)
    /\ UNCHANGED <<area, price, editId, formError, priceError, predictArea,
                   coreVars>>
    /\ Handled(SetsNone, <<>>)

\* onChange of the training form's price field
setPrice ==
    /\ \E v \in PriceTexts : price' = v
    /\ UNCHANGED <<area, editId, formError, areaError, priceError, predictArea,
                   coreVars>>
    /\ Handled(SetsNone, <<>>)

\* onBlur of the training form's price field
onBlurPrice ==
    /\ \E p \in {parseNumber(price)} : priceError' = validatePrice(p)
    /\ UNCHANGED <<area, price, editId, formError, areaError, predictArea,
                   coreVars>>
    /\ Handled(SetsNone, <<>>)

\* onChange of the prediction form's area field
setPredictArea ==
    /\ \E v \in PredictTexts : predictArea' = v
    /\ UNCHANGED <<area, price, editId, formError, areaError, priceError,
                   coreVars>>
    /\ Handled(SetsNone, <<>>)

canAddMore == Len(data) < 50

\* onSubmitTraining(e); the form is submitted with its Add/Save button,
\* which line 283 disables while !canAddMore && !editId
onSubmitTraining ==
    /\ canAddMore \/ Truthy(editId)
    /\ UNCHANGED <<predictArea, coreVars>>
    /\ \E a \in {parseNumber(area)}, p \in {parseNumber(price)} :
       \E aErr \in {validateArea(a)}, pErr \in {validatePrice(p)} :
           /\ IF Truthy(aErr) \/ Truthy(pErr)
              THEN /\ formError' = ""
                   /\ areaError' = aErr
                   /\ priceError' = pErr
                   /\ UNCHANGED <<area, price, editId>>
              ELSE IF ~canAddMore /\ editId = nullString
              THEN /\ formError' = "Maximum of 50 entries reached."
                   /\ areaError' = aErr
                   /\ priceError' = pErr
                   /\ UNCHANGED <<area, price, editId>>
              ELSE /\ formError' = ""
                   /\ area' = <<>>
                   /\ price' = <<>>
                   /\ areaError' = nullString
                   /\ priceError' = nullString
                   /\ IF Truthy(editId)
                      THEN editId' = nullString
                      ELSE /\ created < MaxAdded
                           /\ editId' = editId
           /\ Handled(SetsNone,
                      IF Truthy(aErr) \/ Truthy(pErr) THEN <<>>
                      ELSE IF ~canAddMore /\ editId = nullString THEN <<>>
                      ELSE IF Truthy(editId)
                      THEN <<[kind |-> "edit", id |-> editId,
                              area |-> a, price |-> p]>>
                      ELSE <<[kind |-> "add", id |-> nullString,
                              area |-> a, price |-> p]>>)

\* a stored list of k points, with the ids p1 .. pk
Points(k) ==
    [i \in 1..k |->
        [id |-> "p" \o ToString(i), area |-> FromInt(i), price |-> FromInt(i)]]

\* localStorage.getItem(STORAGE_KEY) for a list one point short of the
\* limit of line 104 and for a list at the limit
StoredItemsAtLimit == { JSONstringify(Points(49)), JSONstringify(Points(50)) }

\* the rows whose Edit and Delete buttons are clicked: the first row of
\* each stored list and every point created by the page
ClickedIds ==
    {"a", "p1"} \cup { nanoid(k) : k \in 0..(MaxCreated - 1) }

Clicked == { i \in 1..Len(data) : data[i].id \in ClickedIds }

\* startEdit(d), for a point d of the rendered list
startEdit ==
    /\ \E i \in Clicked :
           /\ editId' = data[i].id
           /\ area' = String(data[i].area)
           /\ price' = String(data[i].price)
    /\ areaError' = nullString
    /\ priceError' = nullString
    /\ formError' = ""
    /\ UNCHANGED <<predictArea, coreVars>>
    /\ Handled(SetsNone, <<>>)

\* remove(d.id), for a point d of the rendered list
remove ==
    /\ UNCHANGED <<area, price, editId, formError, areaError, priceError,
                   predictArea, coreVars>>
    /\ \E i \in Clicked :
           Handled(SetsNone,
                   <<[kind |-> "remove", id |-> data[i].id,
                      area |-> Zero, price |-> Zero]>>)

\* cancelEdit(); its button is rendered only while editId is truthy
cancelEdit ==
    /\ Truthy(editId)
    /\ editId' = nullString
    /\ area' = <<>>
    /\ price' = <<>>
    /\ areaError' = nullString
    /\ priceError' = nullString
    /\ formError' = ""
    /\ UNCHANGED <<predictArea, coreVars>>
    /\ Handled(SetsNone, <<>>)

\* train(); line 359 disables its button while data.length < 2
train ==
    /\ Len(data) >= 2
    /\ UNCHANGED <<area, price, editId, formError, areaError, priceError,
                   predictArea, coreVars>>
    /\ \E r \in {calculateRegression(data)} :
           Handled(IF r.threw
                   THEN [model |-> null, trainError |-> r.message]
                   ELSE [model |-> r.value, trainError |-> ""],
                   <<>>)

\* onPredict(e)
onPredict ==
    /\ UNCHANGED <<area, price, editId, formError, areaError, priceError,
                   predictArea, coreVars>>
    /\ \E a \in {parseNumber(predictArea)} :
       \E err \in {validateArea(a)} :
           Handled(IF model = null
                   THEN [predictError   |-> "Train the model first.",
                         predictedPrice |-> null]
                   ELSE IF Truthy(err)
                   THEN [predictError |-> err, predictedPrice |-> null]
                   ELSE [predictError   |-> "",
                         predictedPrice |-> predictPrice(a, model.m, model.b)],
                   <<>>)

Next ==
    \/ RunEffects
    \/ Render
    \/ setArea
    \/ onBlurArea
    \/ setPrice
    \/ onBlurPrice
    \/ setPredictArea
    \/ onSubmitTraining
    \/ startEdit
    \/ remove
    \/ cancelEdit
    \/ train
    \/ onPredict

Spec == Init /\ [][Next]_vars

\* the page opened on a stored list at the limit, or one point short of it
InitAtLimit ==
    /\ InitialState
    /\ storage \in StoredItemsAtLimit
    /\ unified \in BOOLEAN
    /\ NoCall

\* the operations on the point list and on the training form; the model
\* and the prediction, which these operations only reset, are followed
\* under Spec
NextAtLimit ==
    \/ RunEffects
    \/ Render
    \/ setArea
    \/ onBlurArea
    \/ setPrice
    \/ onBlurPrice
    \/ onSubmitTraining
    \/ startEdit
    \/ remove
    \/ cancelEdit

SpecAtLimit == InitAtLimit /\ [][NextAtLimit]_vars

----------------------------------------------------------------------------
(* Vocabulary of the properties.                                           *)

Threw == outcome # None /\ outcome.threw

ReturnedValue == outcome # None /\ ~outcome.threw

Areas(points) == { points[i].area : i \in 1..Len(points) }

Prices(points) == { points[i].price : i \in 1..Len(points) }

\* all observations have the same area (zero x-variance)
SameAreas(points) == \A x, y \in Areas(points) : FEq(x, y)

\* all observations have the same price
SamePrices(points) == \A x, y \in Prices(points) : FEq(x, y)

FLe(x, y) == FCmp(x, y) <= 0

FLt(x, y) == FCmp(x, y) < 0

\* an observation whose area differs from the first one's
OtherArea(points) == CHOOSE j \in 1..Len(points) : ~FEq(points[j].area, points[1].area)

Dx(points) == XSub(points[OtherArea(points)].area, points[1].area)

Dy(points) == XSub(points[OtherArea(points)].price, points[1].price)

\* at least two distinct areas, and all observations exactly on one line
\* y = a * x + c, where a = Dy / Dx and c = y1 - a * x1 (real numbers)
OnALine(points) ==
    /\ Len(points) >= 2
    /\ ~SameAreas(points)
    /\ \A k \in 1..Len(points) :
           FEq(XMul(XSub(points[k].price, points[1].price), Dx(points)),
               XMul(Dy(points), XSub(points[k].area, points[1].area)))

\* c * Dx, for the intercept c of that line
InterceptTimesDx(points) ==
    XSub(XMul(points[1].price, Dx(points)), XMul(Dy(points), points[1].area))

\* m = a
SlopeIs(points, m) == FEq(XMul(m, Dx(points)), Dy(points))

\* b = c
InterceptIs(points, b) == FEq(XMul(b, Dx(points)), InterceptTimesDx(points))

\* y = a * x + c
OnTheLine(points, x, y) ==
    FEq(XMul(y, Dx(points)), XAdd(XMul(Dy(points), x), InterceptTimesDx(points)))

RECURSIVE SquaredResidualsFrom(_, _, _, _)
SquaredResidualsFrom(points, i, m, b) ==
    IF i > Len(points) THEN FZero(FALSE)
    ELSE LET r == XSub(points[i].price, XAdd(XMul(m, points[i].area), b))
         IN  XAdd(XMul(r, r), SquaredResidualsFrom(points, i + 1, m, b))

\* the exact sum over the observations of (y - (m * x + b))^2
SquaredResiduals(points, m, b) == SquaredResidualsFrom(points, 1, m, b)

\* the distance from x to a neighbouring JavaScript number
Ulp(x) == IF FIsZero(x) THEN FCanon(FALSE, <<1>>, -53) ELSE FCanon(FALSE, <<1>>, FTop(x) - 53)

Neighbours(x) == { XVal(x), XAdd(x, Ulp(x)), XSub(x, Ulp(x)) }

\* the candidate lines a returned line is compared with: the lines next to
\* it among the JavaScript numbers, and two fixed lines
Candidates(m, b) ==
    { [m |-> mm, b |-> bb] : mm \in Neighbours(m), bb \in Neighbours(b) }
        \cup { [m |-> FromInt(2), b |-> FromInt(3)], [m |-> Zero, b |-> Zero] }

\* no candidate line has a smaller sum of squared residuals than (m, b)
Minimises(points, m, b) ==
    \A c \in Candidates(m, b) :
        FLe(SquaredResiduals(points, m, b), SquaredResiduals(points, c.m, c.b))

SumNames == {"sumX", "sumY", "sumXY", "sumXX"}

\* the real number that line 15, 16, 17 or 18 adds for the observation p
Term(p, k) ==
    CASE k = "sumX"  -> XVal(p.area)
      [] k = "sumY"  -> XVal(p.price)
      [] k = "sumXY" -> XMul(p.area, p.price)
      [] k = "sumXX" -> XMul(p.area, p.area)

RECURSIVE RealSum(_, _, _)
\* the real sum of those numbers over the first i observations
RealSum(points, i, k) ==
    IF i = 0 THEN FZero(FALSE)
    ELSE XAdd(RealSum(points, i - 1, k), Term(points[i], k))

\* The closed form of lines 9-28 in real numbers: n, the four sums, the
\* denominator of line 22 and the numerator of line 27.  The least-squares
\* slope is num / den and the least-squares intercept is
\* (sumY * den - num * sumX) / (n * den); the record holds that dividend as
\* intercept and that divisor as scale.
RealFit(points) ==
    LET n   == FromInt(Len(points))
        s   == [k \in SumNames |-> RealSum(points, Len(points), k)]
        den == XSub(XMul(n, s.sumXX), XMul(s.sumX, s.sumX))
        num == XSub(XMul(n, s.sumXY), XMul(s.sumX, s.sumY))
    IN  [n |-> n, sumX |-> s.sumX, sumY |-> s.sumY, sumXY |-> s.sumXY,
         sumXX |-> s.sumXX, den |-> den, num |-> num,
         scale |-> XMul(n, den),
         intercept |-> XSub(XMul(s.sumY, den), XMul(num, s.sumX))]

\* m is the least-squares slope of the observations, as a real number
LeastSquaresSlope(points, m) ==
    LET f == RealFit(points) IN FEq(XMul(m, f.den), f.num)

\* b is the least-squares intercept of the observations, as a real number
LeastSquaresIntercept(points, b) ==
    LET f == RealFit(points) IN FEq(XMul(b, f.scale), f.intercept)

\* zero, or of magnitude from 2^-200 up to 2^200: far from overflow and
\* underflow in every operation of calculateRegression
ModerateNumber(x) == FIsZero(x) \/ (FTop(x) > -200 /\ FTop(x) <= 200)

Moderate(points) ==
    \A i \in 1..Len(points) :
        ModerateNumber(points[i].area) /\ ModerateNumber(points[i].price)

\* No operation of lines 15-28 rounds on these observations: every product
\* and running sum of the first pass, every product and difference of
\* lines 22 and 27, the least-squares slope, its product with sumX, the
\* difference of line 28 and the least-squares intercept are JavaScript
\* numbers.
ComputedExactly(points) ==
    LET f == RealFit(points)
    IN  /\ \A i \in 1..Len(points), k \in SumNames :
               /\ Representable(Term(points[i], k))
               /\ Representable(RealSum(points, i, k))
        /\ Representable(XMul(f.n, f.sumXX))
        /\ Representable(XMul(f.sumX, f.sumX))
        /\ Representable(f.den)
        /\ Representable(XMul(f.n, f.sumXY))
        /\ Representable(XMul(f.sumX, f.sumY))
        /\ Representable(f.num)
        /\ ~FIsZero(f.den)
        /\ LET a == FDiv(f.num, f.den)
               u == XSub(f.sumY, XMul(a, f.sumX))
           IN  /\ FEq(XMul(a, f.den), f.num)
               /\ Representable(XMul(a, f.sumX))
               /\ Representable(u)
               /\ FEq(XMul(FDiv(u, f.n), f.n), u)

\* the product of the least-squares slope with every area is a JavaScript
\* number, so that no predicted price of line 36 is rounded
PredictedExactly(points) ==
    LET f == RealFit(points)
    IN  \A i \in 1..Len(points) :
            Representable(XMul(FDiv(f.num, f.den), points[i].area))

RECURSIVE SumSq(_, _)
\* the real sum of the squares of the first i of the numbers r
SumSq(r, i) ==
    IF i = 0 THEN FZero(FALSE) ELSE XAdd(SumSq(r, i - 1), XMul(r[i], r[i]))

\* The second pass of lines 30-39 for the least-squares line, in real
\* numbers multiplied by scale^2: ssRes, whose residual y - (m*x + b) times
\* scale is scale * y - n * num * x - intercept, and ssTot, whose deviation
\* y - meanY times scale is den * (n * y - sumY).
RealSquares(points) ==
    LET f == RealFit(points)
        g == XMul(f.n, f.num)
    IN  [ssRes |-> SumSq([i \in 1..Len(points) |->
                             XSub(XSub(XMul(f.scale, points[i].price),
                                       XMul(g, points[i].area)),
                                  f.intercept)],
                         Len(points)),
         ssTot |-> SumSq([i \in 1..Len(points) |->
                             XMul(f.den, XSub(XMul(f.n, points[i].price), f.sumY))],
                         Len(points)),
         den   |-> f.den,
         unit  |-> XMul(f.scale, f.scale)]

\* the ssTot and ssRes the call computed are the real ones
SquaresComputedExactly(r) ==
    /\ FEq(XMul(frame.ssRes, r.unit), r.ssRes)
    /\ FEq(XMul(frame.ssTot, r.unit), r.ssTot)

\* the orderings of a sequence
Orderings(points) ==
    { [i \in 1..Len(points) |-> points[p[i]]] : p \in Permutations(1..Len(points)) }

\* the same failure, or the same sentinel, or the same slope, intercept, r2
\* and rmse
SameOutcome(o1, o2) ==
    IF o1.threw \/ o2.threw THEN o1 = o2
    ELSE /\ FEq(o1.value.m, o2.value.m)
         /\ FEq(o1.value.b, o2.value.b)
         /\ FEq(o1.value.r2, o2.value.r2)
         /\ FEq(o1.value.rmse, o2.value.rmse)

\* round to nearest of a real number given exactly
RoundX(x) == FRound(x.neg, x.m, x.e, FALSE)

----------------------------------------------------------------------------
(* C1: a call with 0 or 1 observations throws "Insufficient data points"   *)
(* at the length check: it never gets past that statement, no sum or other *)
(* local is assigned when it throws, and it never returns a value.         *)
C1_InsufficientData ==
    Len(callData) < 2 =>
        /\ pc \in {"length", "done"}
        /\ pc = "done" =>
              /\ outcome = [threw |-> TRUE, message |-> InsufficientData]
              /\ DOMAIN frame = {"n"}
        /\ calculateRegression(callData) = [threw |-> TRUE, message |-> InsufficientData]

C1_Witness == pc = "done" /\ Len(callData) = 1 /\ Threw

(* C2: a call with at least 2 observations that all have the same area     *)
(* returns the sentinel (m = 0, b = 0, r2 = 0, rmse = 0, "Undefined        *)
(* (Vertical Line)"), whatever the prices.                                 *)
C2_VerticalLineSentinel ==
    (pc = "done" /\ Len(callData) >= 2 /\ SameAreas(callData)) =>
        outcome = [threw |-> FALSE, value |-> Sentinel]

----------------------------------------------------------------------------
\* the prediction was made with the line the call returned
PredictedWithFit ==
    /\ prediction # None
    /\ ReturnedValue
    /\ prediction.m = outcome.value.m
    /\ prediction.b = outcome.value.b

(* C3 as stated: whenever the observations (two or more, with at least    *)
(* two distinct areas) lie exactly on a line y = a*x + c with a # 0, the   *)
(* call returns slope a, intercept c, r2 = 1 and rmse = 0, and a           *)
(* prediction made with the returned line at any area x is a*x + c.        *)
C3_ExactFitAsStated ==
    (pc = "done" /\ OnALine(callData) /\ ~FIsZero(Dy(callData))) =>
        /\ ReturnedValue
        /\ SlopeIs(callData, outcome.value.m)
        /\ InterceptIs(callData, outcome.value.b)
        /\ FEq(outcome.value.r2, One)
        /\ FEq(outcome.value.rmse, Zero)
        /\ PredictedWithFit =>
               OnTheLine(callData, prediction.area, prediction.price)

\* the observations of the round-trip scenario
Example ==
    <<[id |-> "p", area |-> FromInt(50), price |-> FromInt(100000)],
      [id |-> "q", area |-> FromInt(100), price |-> FromInt(200000)],
      [id |-> "r", area |-> FromInt(150), price |-> FromInt(300000)]>>

(* C3 amended: whenever the observations (two or more, with at least two   *)
(* distinct areas, each number zero or of magnitude from 2^-200 up to      *)
(* 2^200) lie exactly on a line y = a*x + c with a # 0 and no operation of *)
(* the fit rounds on them (the products and running sums of the first      *)
(* pass, the products and differences of lines 22 and 27, a, a*sumX, the   *)
(* difference of line 28, c and every a*x_i are JavaScript numbers), the   *)
(* call returns exactly slope a, intercept c, r2 = 1 and rmse = 0, and a   *)
(* prediction made with the returned line at an area x for which a*x and   *)
(* a*x + c are JavaScript numbers is exactly a*x + c.  The fit on          *)
(* [(50,100000),(100,200000),(150,300000)] returns slope 2000 and          *)
(* intercept 0, and its prediction at 75 is 150000.                        *)
C3_ExactFit ==
    /\ (/\ pc = "done"
        /\ prediction = None \/ PredictedWithFit
        /\ OnALine(callData)
        /\ ~FIsZero(Dy(callData))
        /\ Moderate(callData)
        /\ ComputedExactly(callData)
        /\ PredictedExactly(callData)) =>
           /\ ReturnedValue
           /\ SlopeIs(callData, outcome.value.m)
           /\ InterceptIs(callData, outcome.value.b)
           /\ outcome.value.r2 = One
           /\ outcome.value.rmse = Zero
           /\ (/\ PredictedWithFit
               /\ Representable(XMul(prediction.m, prediction.area))
               /\ Representable(XAdd(XMul(prediction.m, prediction.area),
                                     prediction.b))) =>
                      OnTheLine(callData, prediction.area, prediction.price)
    /\ (pc = "done" /\ callData = Example) =>
           /\ ReturnedValue
           /\ outcome.value.m = FromInt(2000)
           /\ FEq(outcome.value.b, Zero)
           /\ outcome.value.r2 = One
           /\ outcome.value.rmse = Zero
           /\ (PredictedWithFit /\ prediction.area = FromInt(75)) =>
                  prediction.price = FromInt(150000)

\* the line y = 2000x has been fitted on the observations of the round-trip
\* scenario, none of whose operations rounds, and used to predict the price
\* 150000 at area 75
C3_Witness ==
    /\ pc = "done"
    /\ callData = Example
    /\ OnALine(callData)
    /\ ~FIsZero(Dy(callData))
    /\ Moderate(callData)
    /\ ComputedExactly(callData)
    /\ PredictedExactly(callData)
    /\ ReturnedValue
    /\ outcome.value.m = FromInt(2000)
    /\ PredictedWithFit
    /\ prediction.area = FromInt(75)
    /\ prediction.price = FromInt(150000)

----------------------------------------------------------------------------
(* C4 as stated: whenever the call is made with two or more observations   *)
(* of non-zero x-variance, it returns a line, and no candidate line has a  *)
(* smaller sum of squared vertical residuals than the returned line.       *)
C4_LeastSquaresAsStated ==
    (pc = "done" /\ Len(callData) >= 2 /\ ~SameAreas(callData)) =>
        /\ ReturnedValue
        /\ Minimises(callData, outcome.value.m, outcome.value.b)

(* C4 amended: whenever a call has ended that was made with two or more    *)
(* observations of                                                         *)
(* non-zero x-variance (each number zero or of magnitude from 2^-200 up to *)
(* 2^200) on which no operation of lines 15-28 rounds, so that the         *)
(* least-squares slope and intercept are JavaScript numbers, it returns    *)
(* exactly the least-squares line: the returned slope is                   *)
(* (n*sumXY - sumX*sumY) / (n*sumXX - sumX*sumX) and the returned          *)
(* intercept is (sumY - slope*sumX) / n as real numbers, which is the line *)
(* whose sum of squared vertical residuals is at most that of every other  *)
(* line; in particular no candidate line has a smaller sum.                *)
C4_LeastSquares ==
    (/\ pc = "done"
     /\ prediction = None
     /\ Len(callData) >= 2
     /\ ~SameAreas(callData)
     /\ Moderate(callData)
     /\ ComputedExactly(callData)) =>
        /\ ReturnedValue
        /\ LeastSquaresSlope(callData, outcome.value.m)
        /\ LeastSquaresIntercept(callData, outcome.value.b)
        /\ Minimises(callData, outcome.value.m, outcome.value.b)

\* the least-squares line has been returned for three observations that lie
\* on no line and on which no operation rounds, so that every line has a
\* positive sum of squared residuals
C4_Witness ==
    /\ pc = "done"
    /\ Len(callData) = 3
    /\ ~SameAreas(callData)
    /\ Moderate(callData)
    /\ ComputedExactly(callData)
    /\ ~OnALine(callData)
    /\ ReturnedValue
    /\ LeastSquaresSlope(callData, outcome.value.m)
    /\ LeastSquaresIntercept(callData, outcome.value.b)
    /\ FLt(Zero, SquaredResiduals(callData, outcome.value.m, outcome.value.b))

----------------------------------------------------------------------------
(* C5 as stated: whenever a call has ended, a call with any other ordering *)
(* of the same observations ends the same way: with the same failure, or   *)
(* the same sentinel, or the same slope, intercept, r2 and rmse.           *)
C5_PermutationInvarianceAsStated ==
    (pc = "done" /\ prediction = None) =>
        \A q \in Orderings(callData) :
            SameOutcome(calculateRegression(q), outcome)

----------------------------------------------------------------------------
(* C6: whenever the call is made with two or more observations of at least *)
(* two distinct areas and one common price, it returns r2 = 0, slope = 0,  *)
(* intercept = the common price, and rmse = 0.                             *)
C6_ConstantPrice ==
    (pc = "done" /\ Len(callData) >= 2 /\ ~SameAreas(callData) /\ SamePrices(callData)) =>
        /\ ReturnedValue
        /\ FEq(outcome.value.r2, Zero)
        /\ FEq(outcome.value.m, Zero)
        /\ FEq(outcome.value.b, callData[1].price)
        /\ FEq(outcome.value.rmse, Zero)

----------------------------------------------------------------------------
\* m * x + b as JavaScript evaluates it: the real product rounded to a
\* number, then the real sum of that number and b rounded to a number
ProductThenSum(x, m, b) == RoundX(XAdd(RoundX(XMul(m, x)), b))

(* C7: every predictPrice call, whatever the area (zero, negative, large)  *)
(* and the line, returns m * area + b as JavaScript evaluates it, which is *)
(* the real number slope*x + intercept whenever the product and the sum    *)
(* need no rounding; predictPrice(10, 2, 3) returns 23.                    *)
C7_Predict ==
    prediction # None =>
        LET product == XMul(prediction.m, prediction.area)
            sum     == XAdd(product, prediction.b)
        IN  /\ prediction.price = ProductThenSum(prediction.area, prediction.m, prediction.b)
            /\ (Representable(product) /\ Representable(sum)) =>
                   FEq(prediction.price, sum)
            /\ (/\ prediction.area = FromInt(10)
                /\ prediction.m = FromInt(2)
                /\ prediction.b = FromInt(3)) => prediction.price = FromInt(23)

\* predictPrice has been called with a negative area and the line y = 2x + 3
C7_Witness ==
    /\ prediction # None
    /\ prediction.area = FromInt(-2)
    /\ prediction.m = FromInt(2)
    /\ prediction.b = FromInt(3)
    /\ prediction.price = FromInt(-1)

----------------------------------------------------------------------------
\* the call went through the second pass
Scored == pc = "done" /\ ReturnedValue /\ "ssTot" \in DOMAIN frame

(* C8: whenever the call returns a fitted line with ssTot # 0, the         *)
(* returned r2 is 1 - ssRes / ssTot as computed from the two sums of the   *)
(* second pass, and it is negative whenever ssRes > ssTot.                 *)
C8_RSquaredNotClamped ==
    (Scored /\ ~FIsZero(frame.ssTot)) =>
        /\ outcome.value.r2 = FSub(One, FDiv(frame.ssRes, frame.ssTot))
        /\ FLt(frame.ssTot, frame.ssRes) => FLt(outcome.value.r2, Zero)

\* a line has been returned with ssRes > ssTot and a negative r2
C8_Witness ==
    /\ Scored
    /\ ~FIsZero(frame.ssTot)
    /\ FLt(frame.ssTot, frame.ssRes)
    /\ FLt(outcome.value.r2, Zero)

----------------------------------------------------------------------------
(* C10: whenever a call has ended that was made with two or more           *)
(* observations of                                                         *)
(* non-zero x-variance, then in real numbers the denominator of line 22 is *)
(* positive and, for the line of lines 27-28, 0 <= ssRes <= ssTot, so that *)
(* the r2 of line 41 lies in [0, 1]; and whenever the ssTot and ssRes the  *)
(* call computed are those real numbers, the r2 it returns lies in [0, 1]. *)
C10_RSquaredInUnitInterval ==
    (/\ pc = "done"
     /\ prediction = None
     /\ Len(callData) >= 2
     /\ ~SameAreas(callData)) =>
        LET r == RealSquares(callData)
        IN  /\ FLt(Zero, r.den)
            /\ FLe(Zero, r.ssRes)
            /\ FLe(r.ssRes, r.ssTot)
            /\ (Scored /\ SquaresComputedExactly(r)) =>
                   /\ FLe(Zero, outcome.value.r2)
                   /\ FLe(outcome.value.r2, One)

\* a line has been returned with the real sums 0 < ssRes < ssTot computed
\* without rounding and r2 strictly between 0 and 1
C10_Witness ==
    /\ Scored
    /\ ~SameAreas(callData)
    /\ SquaresComputedExactly(RealSquares(callData))
    /\ FLt(Zero, frame.ssRes)
    /\ FLt(frame.ssRes, frame.ssTot)
    /\ FLt(Zero, outcome.value.r2)
    /\ FLt(outcome.value.r2, One)

----------------------------------------------------------------------------
\* when no effect is pending and no update is queued, the model (if any) is
\* the regression of the current point list, and there is a predicted price
\* only if there is a model
Fresh ==
    (effects = "none" /\ queued = NoUpdates) =>
        /\ model # null =>
               LET r == calculateRegression(data)
               IN  ~r.threw /\ model = r.value
        /\ predictedPrice # null => model # null

(* C9: every step that changes the point list either leaves the effects of *)
(* lines 88-102 pending or has run them, and a step that has run them has  *)
(* queued the reset of a model and of a predicted price that are not null; *)
(* and whenever no effect is pending and no update is queued, so that the  *)
(* effects have run and what they queued is rendered, a non-null model is  *)
(* calculateRegression of the current point list and the predicted price   *)
(* is non-null only if the model is non-null.                              *)
C9_Staleness ==
    /\ []Fresh
    /\ [][(data' # data \/ RunEffects) =>
              \/ effects' # "none"
              \/ /\ model' # null => "model" \in queued'.reset
                 /\ predictedPrice' # null => "predictedPrice" \in queued'.reset]_vars

----------------------------------------------------------------------------
\* the training form passes validateArea and validatePrice
FormValid ==
    /\ ~Truthy(validateArea(parseNumber(area)))
    /\ ~Truthy(validatePrice(parseNumber(price)))

\* a step of onSubmitTraining that passes validation in edit mode
EditSubmit ==
    /\ onSubmitTraining
    /\ editId # nullString
    /\ FormValid

\* the rows of the point list whose id is editId
EditedRows == { i \in 1..Len(data) : data[i].id = editId }

\* the step leaves the number and the order of the points as they were, gives
\* the submitted area and price to the points at rows and leaves every other
\* point as it was
SubmittedAt(rows) ==
    /\ Len(data') = Len(data)
    /\ \A i \in 1..Len(data) :
           data'[i] = IF i \in rows
                      THEN [data[i] EXCEPT !.area = parseNumber(area),
                                           !.price = parseNumber(price)]
                      ELSE data[i]

(* C11: whenever onSubmitTraining passes validation in edit mode, exactly  *)
(* one point of the list, the one whose id is editId, takes the submitted  *)
(* area and price, every other point and the order and the number of the   *)
(* points are unchanged, and editId becomes null; after any interleaving   *)
(* of startEdit, remove, cancelEdit and submit.                            *)
C11_EditSubmit ==
    [][EditSubmit =>
           /\ Cardinality(EditedRows) = 1
           /\ SubmittedAt(EditedRows)
           /\ editId' = nullString]_vars

----------------------------------------------------------------------------
\* a step of onSubmitTraining that passes validation outside edit mode
AddSubmit ==
    /\ onSubmitTraining
    /\ editId = nullString
    /\ FormValid

(* C12: starting from a point list of at most 50 entries, after any        *)
(* sequence of submit, startEdit, cancelEdit and remove operations the     *)
(* list never holds more than 50 points; a validation-passing submit that  *)
(* is not an edit, made while 50 points are held, is rejected with         *)
(* "Maximum of 50 entries reached." and leaves the list unchanged, whereas *)
(* a submit in edit mode is still accepted at 50 points: it is not         *)
(* rejected, the point being edited takes the submitted values and editId  *)
(* becomes null.                                                           *)
C12_Limit ==
    /\ [](Len(data) <= 50)
    /\ [][/\ (AddSubmit /\ Len(data) = 50) =>
                 /\ formError' = "Maximum of 50 entries reached."
                 /\ data' = data
          /\ (EditSubmit /\ Len(data) = 50) =>
                 /\ formError' = ""
                 /\ SubmittedAt(EditedRows)
                 /\ Len(data') = 50
                 /\ editId' = nullString]_vars

=============================================================================
